---- MODULE Spec2Model ----
(***************************************************************************)
(* splitfs: a read-only FUSE view of a source tree in which every regular  *)
(* file appears as a directory of fixed-size chunk files.                  *)
(*                                                                         *)
(* The model follows package split (the version with the filename          *)
(* policies) for one source regular file behind one fileAsDir node:        *)
(* the filename codec of fileAsDir.ReadDirAll / fileAsDir.Lookup, the      *)
(* chunk arithmetic of getData, fileChunk.Open, fileChunkHandle.Read and   *)
(* Release, and the Attr handlers.  File names are sequences of            *)
(* one-character strings, so formatting and parsing are computed           *)
(* character by character as fmt.Sprintf, strings.Split and                *)
(* strconv.ParseInt compute them.                                          *)
(***************************************************************************)
EXTENDS Integers, Sequences, FiniteSets, TLC

(***************************************************************************)
(* Bounds of the model.                                                    *)
(***************************************************************************)
\* largest chunk size a file system is constructed with
MaxChunkSize == 3
\* largest size in bytes of the source file
MaxFileSize == 3
\* largest offset and size of a read request
MaxRead == 3
\* number of descriptors a client opens one by one in one behaviour
MaxOpens == 1
\* number of handle ids the runs of cat use up in one behaviour
MaxCatOpens == 6

(***************************************************************************)
(* Program constants.                                                      *)
(***************************************************************************)
minFormatZeroes == 8
chunkFileExtension == <<".", "s", "p", "l", "i", "t", "f", "s", ".", "c", "h", "u", "n", "k">>
\* the block size fileChunk.Attr divides by
attrBlockSize == 512
\* first id of the handle id provider
firstHandleID == 2

(***************************************************************************)
(* Strings: the functions of packages strings, strconv and fmt that the    *)
(* codec uses.                                                             *)
(***************************************************************************)
Digits == <<"0", "1", "2", "3", "4", "5", "6", "7", "8", "9">>

IsDigit(c) == \E i \in 1..10 : Digits[i] = c

DigitValue(c) == (CHOOSE i \in 1..10 : Digits[i] = c) - 1

Min(a, b) == IF a < b THEN a ELSE b

Max(a, b) == IF a > b THEN a ELSE b

\* strings.HasSuffix
HasSuffix(s, suffix) ==
    /\ Len(s) >= Len(suffix)
    /\ SubSeq(s, Len(s) - Len(suffix) + 1, Len(s)) = suffix

\* strings.TrimSuffix
TrimSuffix(s, suffix) ==
    IF HasSuffix(s, suffix) THEN SubSeq(s, 1, Len(s) - Len(suffix)) ELSE s

\* strings.LastIndex for a one-character separator, as a 0-based index, -1 if absent
LastIndex(s, c) ==
    IF \E i \in 1..Len(s) : s[i] = c
    THEN (CHOOSE i \in 1..Len(s) : s[i] = c /\ \A j \in (i + 1)..Len(s) : s[j] # c) - 1
    ELSE -1

\* strings.Split for a one-character separator: always at least one part
RECURSIVE Split(_, _)
Split(s, c) ==
    IF \E i \in 1..Len(s) : s[i] = c
    THEN LET i == CHOOSE k \in 1..Len(s) : s[k] = c /\ \A j \in 1..(k - 1) : s[j] # c
         IN  <<SubSeq(s, 1, i - 1)>> \o Split(SubSeq(s, i + 1, Len(s)), c)
    ELSE <<s>>

\* the decimal digits of n >= 0
RECURSIVE Decimal(_)
Decimal(n) ==
    IF n < 10 THEN <<Digits[n + 1]>>
    ELSE Decimal(n \div 10) \o <<Digits[(n % 10) + 1]>>

RECURSIVE Zeroes(_)
Zeroes(k) == IF k <= 0 THEN <<>> ELSE <<"0">> \o Zeroes(k - 1)

\* fmt verb %d
FormatInt(n) == IF n < 0 THEN <<"-">> \o Decimal(-n) ELSE Decimal(n)

\* fmt verb %0<width>d: the sign first, then zeroes up to the width
FormatPadded(n, width) ==
    LET sign == IF n < 0 THEN <<"-">> ELSE <<>>
        digits == Decimal(IF n < 0 THEN -n ELSE n)
    IN  sign \o Zeroes(width - Len(sign) - Len(digits)) \o digits

\* the value of a non-empty sequence of digits
RECURSIVE DigitsValue(_)
DigitsValue(s) ==
    IF Len(s) = 0 THEN 0
    ELSE 10 * DigitsValue(SubSeq(s, 1, Len(s) - 1)) + DigitValue(s[Len(s)])

\* strconv.ParseInt(s, 10, 64): an optional sign, then one or more digits
\* (the names of the model stay far below the 64-bit range error)
ParseInt(s) ==
    LET signed == Len(s) > 0 /\ s[1] \in {"+", "-"}
        body == IF signed THEN SubSeq(s, 2, Len(s)) ELSE s
        ok == Len(body) > 0 /\ \A i \in 1..Len(body) : IsDigit(body[i])
    IN  IF ~ok THEN [ok |-> FALSE, value |-> 0]
        ELSE [ok |-> TRUE,
              value |-> IF signed /\ s[1] = "-" THEN -DigitsValue(body) ELSE DigitsValue(body)]

(***************************************************************************)
(* The source file system and the state of the mount.                      *)
(***************************************************************************)
VARIABLES
    splitFS,    \* the splitFS record NewFS built: chunkSize and the two filename policies
    source,     \* the source regular file: exists, data, mtime, mode, ino
    fileAsDir,  \* the fileAsDir node directory.Lookup made for the source file
    listing,    \* what the client holds of the last fileAsDir.ReadDirAll, or NotListed
    reply,      \* the reply to the last request, dropped when the source changes
    handle,     \* the fileChunkHandle the client holds, or NoHandle
    nextHandleID, \* the id the handle id provider sends next
    openFiles,  \* the descriptors of the source file the process holds open
    tree,       \* a source directory as the host holds it: its path and its entries in host order
    calls,      \* per client, how far its Open has got and the handle it was given
    handed      \* the handle ids the Opens received from handleIDProvider, in order

vars == <<splitFS, source, fileAsDir, listing, reply, handle, nextHandleID, openFiles,
          tree, calls, handed>>

NotListed == [op |-> "none"]
NoReply == [op |-> "none"]
NoHandle == [id |-> 0]
NoTree == [dir |-> <<>>, entries |-> <<>>]
Clients == {"c1", "c2"}
Idle == [pc |-> "idle"]

\* the instants a source mtime takes: a whole second, an instant within it, the next second
MtimeSeconds == {1700000000, 1700000001}
Instants ==
    {[sec |-> 1700000000, nsec |-> 0], [sec |-> 1700000000, nsec |-> 500000000],
     [sec |-> 1700000001, nsec |-> 0]}

\* the byte the source file holds at an offset: every offset holds another byte
SourceByte(offset) == offset % 256

SourceData(size) == [i \in 1..size |-> SourceByte(i - 1)]

\* time.Time.Truncate(time.Second)
TruncateSecond(t) == [sec |-> t.sec, nsec |-> 0]

\* time.Unix(sec, 0)
TimeUnix(sec) == [sec |-> sec, nsec |-> 0]

\* osToFuseErr: ENOENT and EPERM pass, every other error is ENOSYS
osToFuseErr(err) ==
    IF err = "ENOENT" THEN "ENOENT"
    ELSE IF err \in {"EPERM", "EACCES"} THEN "EPERM"
    ELSE "ENOSYS"

(***************************************************************************)
(* fileAsDir: chunk arithmetic and the filename codec.                     *)
(***************************************************************************)
\* ceilAndRemainder with the quotient always raised (r >= 0 for r > 0)
ceilAndRemainderRaised(x, y) == <<(x \div y) + 1, x % y>>

\* ceilAndRemainder returns (ceil(x / y), x mod y)
ceilAndRemainder(x, y) ==
    LET q == x \div y
        r == x % y
    IN  <<IF r > 0 THEN q + 1 ELSE q, r>>

\* fileAsDir.getData on a successful stat
getData(stat, chunkSize) ==
    LET qr == ceilAndRemainder(stat.size, chunkSize)
    IN  [numberOfChunks |-> qr[1], lastChunkSize |-> qr[2],
         mtime |-> TruncateSecond(stat.mtime)]

\* the ".mtime=%d" part of a chunk name, empty when the policy leaves it out
MtimePart(fs, data) ==
    IF fs.filenameIncludesMtime
    THEN <<".", "m", "t", "i", "m", "e", "=">> \o FormatInt(data.mtime.sec)
    ELSE <<>>

\* ChunkName with the 0-based index in the name
ChunkNameZeroBased(fs, hash, i, data) ==
    hash \o <<"_">> \o FormatPadded(i - 1, minFormatZeroes)
    \o (IF fs.filenameIncludesTotalChunks
        THEN <<"_", "o", "f", "_">> \o FormatPadded(data.numberOfChunks, minFormatZeroes)
        ELSE <<>>)
    \o (IF fs.filenameIncludesMtime
        THEN <<".", "m", "t", "i", "m", "e", "=">> \o FormatInt(data.mtime.sec)
        ELSE <<>>)
    \o chunkFileExtension

\* the name ReadDirAll gives the chunk with 1-based index i
ChunkName(fs, hash, i, data) ==
    IF fs.filenameIncludesTotalChunks
    THEN hash \o <<"_">> \o FormatPadded(i, minFormatZeroes) \o <<"_", "o", "f", "_">>
         \o FormatPadded(data.numberOfChunks, minFormatZeroes)
         \o MtimePart(fs, data) \o chunkFileExtension
    ELSE hash \o <<"_">> \o FormatPadded(i, minFormatZeroes)
         \o MtimePart(fs, data) \o chunkFileExtension

\* the number of entries ReadDirAll makes
EntryCount(data) == data.numberOfChunks

\* fileAsDir.ReadDirAll on a successful stat: one entry per chunk, in index order
ReadDirAllEntries(fs, f, data) ==
    [i \in 1..EntryCount(data) |->
        [Inode |-> f.inodeBase + i, Type |-> "DT_File", Name |-> ChunkName(fs, f.hash, i, data)]]

\* the first part of Lookup: cut the suffix and, under the mtime policy, the
\* ".mtime=<n>" segment.  ok is FALSE where Lookup returns ENOENT.
ParseMtime(fs, name) ==
    IF ~HasSuffix(name, chunkFileExtension) THEN [ok |-> FALSE]
    ELSE LET trimmed == TrimSuffix(name, chunkFileExtension)
         IN  IF ~fs.filenameIncludesMtime
             THEN [ok |-> TRUE, name |-> trimmed, mtime |-> TimeUnix(0)]
             ELSE LET dotIndex == LastIndex(trimmed, ".")
                  IN  IF dotIndex = -1 THEN [ok |-> FALSE]
                      ELSE LET mtimeSplit == Split(SubSeq(trimmed, dotIndex + 2, Len(trimmed)), "=")
                           IN  IF Len(mtimeSplit) # 2 \/ mtimeSplit[1] # <<"m", "t", "i", "m", "e">>
                               THEN [ok |-> FALSE]
                               ELSE LET mtimeUnix == ParseInt(mtimeSplit[2])
                                    IN  IF ~mtimeUnix.ok THEN [ok |-> FALSE]
                                        ELSE [ok |-> TRUE,
                                              name |-> SubSeq(trimmed, 1, dotIndex),
                                              mtime |-> TimeUnix(mtimeUnix.value)]

\* the second part: split on "_" into hash, chunk and, under the total policy, total
ParseParts(fs, name) ==
    LET parts == Split(name, "_")
    IN  IF fs.filenameIncludesTotalChunks
        THEN IF Len(parts) # 4 \/ parts[3] # <<"o", "f">> THEN [ok |-> FALSE]
             ELSE [ok |-> TRUE, hashPart |-> parts[1], chunkPart |-> parts[2],
                   totalChunksPart |-> parts[4]]
        ELSE IF Len(parts) # 2 THEN [ok |-> FALSE]
             ELSE [ok |-> TRUE, hashPart |-> parts[1], chunkPart |-> parts[2],
                   totalChunksPart |-> <<>>]

\* Lookup's test of the parsed 1-based chunk number, before it is decremented
ChunkNumberRejected(chunk) == chunk < 0

\* TotalChunksRejected without the comparison: only an unparsable total is rejected
TotalChunksUnchecked(fs, totalChunksPart, data) ==
    fs.filenameIncludesTotalChunks /\ ~ParseInt(totalChunksPart).ok

\* Lookup's test of the parsed total against the current number of chunks
TotalChunksRejected(fs, totalChunksPart, data) ==
    /\ fs.filenameIncludesTotalChunks
    /\ LET numChunksFromFilename == ParseInt(totalChunksPart)
       IN  ~numChunksFromFilename.ok \/ numChunksFromFilename.value # data.numberOfChunks

\* MtimeRejected without the comparison
MtimeUnchecked(fs, mtime, data) == FALSE

\* Lookup's test of the parsed mtime against the current truncated mtime
MtimeRejected(fs, mtime, data) ==
    fs.filenameIncludesMtime /\ mtime # data.mtime

\* the size Lookup gives the chunk with 0-based index chunk
ChunkSize(fs, chunk, data) ==
    IF chunk = data.numberOfChunks - 1 THEN data.lastChunkSize ELSE fs.chunkSize

ENOENT == [err |-> "ENOENT"]

\* fileAsDir.Lookup: the fileChunk node of a name, or the error
Lookup(fs, f, name, stat) ==
    LET m == ParseMtime(fs, name)
    IN  IF ~m.ok THEN ENOENT
        ELSE LET p == ParseParts(fs, m.name)
             IN  IF ~p.ok THEN ENOENT
                 ELSE IF p.hashPart # f.hash THEN ENOENT
                 ELSE LET parsed == ParseInt(p.chunkPart)
                      IN  IF ~parsed.ok \/ ChunkNumberRejected(parsed.value) THEN ENOENT
                          ELSE IF stat.err # "nil" THEN [err |-> osToFuseErr(stat.err)]
                          ELSE LET chunk == parsed.value - 1
                                   data == getData(stat, fs.chunkSize)
                               IN  IF TotalChunksRejected(fs, p.totalChunksPart, data) THEN ENOENT
                                   ELSE IF MtimeRejected(fs, m.mtime, data) THEN ENOENT
                                   ELSE IF chunk >= data.numberOfChunks THEN ENOENT
                                   ELSE [err |-> "nil",
                                         node |-> [chunk |-> chunk,
                                                   offset |-> chunk * fs.chunkSize,
                                                   size |-> ChunkSize(fs, chunk, data)]]

(***************************************************************************)
(* Attributes.  A syscall st_mode is a number; an os.FileMode is the set   *)
(* of its bit positions, so that & is intersection and | is union.         *)
(***************************************************************************)
RECURSIVE Pow2(_)
Pow2(n) == IF n = 0 THEN 1 ELSE 2 * Pow2(n - 1)

\* the positions of the one bits of a number below 2^16
BitsOf(n) == {b \in 0..15 : (n \div Pow2(b)) % 2 = 1}

S_IFMT == \o170000
S_IFREG == \o100000
S_IFDIR == \o040000
S_IFLNK == \o120000
S_ISUID == \o4000
S_ISGID == \o2000
S_ISVTX == \o1000

ModeDir == {31}
ModeSymlink == {27}
ModeSetuid == {23}
ModeSetgid == {22}
ModeSticky == {20}

\* stat.Mode & mask, both numbers
AndMask(mode, mask) ==
    LET both == BitsOf(mode) \cap BitsOf(mask)
        RECURSIVE Sum(_)
        Sum(S) == IF S = {} THEN 0
                  ELSE LET b == CHOOSE x \in S : TRUE IN Pow2(b) + Sum(S \ {b})
    IN  Sum(both)

\* the os.FileMode copyStatToAttr builds from st_mode
FileModeOf(mode) ==
    BitsOf(AndMask(mode, \o777))
    \cup (IF AndMask(mode, S_IFMT) = S_IFDIR THEN ModeDir ELSE {})
    \cup (IF AndMask(mode, S_IFMT) = S_IFLNK THEN ModeSymlink ELSE {})
    \cup (IF AndMask(mode, S_ISGID) # 0 THEN ModeSetgid ELSE {})
    \cup (IF AndMask(mode, S_ISUID) # 0 THEN ModeSetuid ELSE {})
    \cup (IF AndMask(mode, S_ISVTX) # 0 THEN ModeSticky ELSE {})

\* copyStatToAttr
copyStatToAttr(stat) ==
    [Inode |-> stat.ino, Nlink |-> stat.nlink, Mode |-> FileModeOf(stat.mode),
     Uid |-> stat.uid, Size |-> stat.size, Blocks |-> stat.blocks, Mtime |-> stat.mtime]

\* node.Attr: lstat, then copyStatToAttr
NodeAttr(stat) ==
    IF stat.err # "nil" THEN [err |-> osToFuseErr(stat.err)]
    ELSE [err |-> "nil", attr |-> copyStatToAttr(stat)]

\* FileAsDirMode with the bits set instead of masked: 0555 | os.ModeDir
FileAsDirModeForced(mode) == BitsOf(\o555) \cup ModeDir

\* the mode fileAsDir.Attr reports: (attr.Mode & 0555) | os.ModeDir
FileAsDirMode(mode) == (mode \cap BitsOf(\o555)) \cup ModeDir

\* fileAsDir.Attr
FileAsDirAttr(stat) ==
    LET n == NodeAttr(stat)
    IN  IF n.err # "nil" THEN n
        ELSE [err |-> "nil", attr |-> [n.attr EXCEPT !.Mode = FileAsDirMode(n.attr.Mode)]]

(***************************************************************************)
(* fileChunk and fileChunkHandle.                                          *)
(***************************************************************************)
\* os.File.ReadAt of a buffer of the given length: the bytes the file holds from
\* off on, io.EOF when fewer than the buffer, an error for a negative offset
ReadAt(data, length, off) ==
    IF off < 0 THEN [bytes |-> <<>>, err |-> "EINVAL"]
    ELSE LET bytes == SubSeq(data, off + 1, Min(off + length, Len(data)))
         IN  [bytes |-> bytes, err |-> IF Len(bytes) < length THEN "EOF" ELSE "nil"]

\* TrueSize without the clamp to the chunk
TrueSizeUnclamped(node, offset, size) == size

\* the size of the buffer fileChunkHandle.Read makes: the request clamped to
\* what the chunk has left after the request's offset, and never negative
TrueSize(node, offset, size) ==
    LET clamped == IF size > node.size - offset THEN node.size - offset ELSE size
    IN  IF clamped < 0 THEN 0 ELSE clamped

\* fileChunkHandle.Read
ReadReply(node, data, offset, size) ==
    LET trueOffset == offset + node.offset
        r == ReadAt(data, TrueSize(node, offset, size), trueOffset)
    IN  IF r.err \notin {"nil", "EOF"} THEN [err |-> osToFuseErr(r.err), data |-> <<>>]
        ELSE [err |-> "nil", data |-> r.bytes]

\* os.File.Seek(offset, 0): a negative position is EINVAL
SeekErr(offset) == IF offset < 0 THEN "EINVAL" ELSE "nil"

\* NewFd that gives every Open the same descriptor
NewFdShared(open) == 3

\* os.Open gives the lowest descriptor the process does not hold (0, 1, 2 are taken)
NewFd(open) == CHOOSE fd \in 3..(3 + Cardinality(open)) :
    fd \notin open /\ \A g \in 3..(fd - 1) : g \in open

\* IsReadOnly that lets every flag through
IsReadOnlyAny(flags) == TRUE

\* fuse.OpenFlags.IsReadOnly
IsReadOnly(flags) == flags = "O_RDONLY"

\* fileChunk.Open: the reply, the handle made (NoHandle on an error) and the
\* descriptors held afterwards.  openErr is what os.Open answers.
ChunkOpen(node, flags, openErr, open, id) ==
    IF ~IsReadOnly(flags)
    THEN [err |-> "EROFS", handle |-> NoHandle, open |-> open]
    ELSE IF openErr # "nil"
    THEN [err |-> osToFuseErr(openErr), handle |-> NoHandle, open |-> open]
    ELSE LET fd == NewFd(open)
         IN  IF node.offset # 0 /\ SeekErr(node.offset) # "nil"
             THEN [err |-> osToFuseErr(SeekErr(node.offset)), handle |-> NoHandle,
                   open |-> open \cup {fd}]
             ELSE [err |-> "nil", handle |-> [id |-> id, node |-> node, file |-> fd],
                   open |-> open \cup {fd}]

(***************************************************************************)
(* The names a client asks fileAsDir.Lookup for: the names of the listing  *)
(* it holds, the same layout with other index numbers, and names that      *)
(* differ from a listed layout in one part.                                *)
(***************************************************************************)
\* a name in the layout of the policy, from the strings of its parts
BuildName(fs, hash, index, of, total, mtime, ext) ==
    hash \o <<"_">> \o index
    \o (IF fs.filenameIncludesTotalChunks THEN <<"_">> \o of \o <<"_">> \o total ELSE <<>>)
    \o (IF fs.filenameIncludesMtime THEN <<".", "m", "t", "i", "m", "e", "=">> \o mtime ELSE <<>>)
    \o ext

OtherHash == <<"b", "e", "e", "f">>

Policies == [filenameIncludesTotalChunks : BOOLEAN, filenameIncludesMtime : BOOLEAN]

WithPolicy(fs, p) ==
    [fs EXCEPT !.filenameIncludesTotalChunks = p.filenameIncludesTotalChunks,
               !.filenameIncludesMtime = p.filenameIncludesMtime]

CandidateNames(fs, f, lst) ==
    LET data == getData(lst.stat, fs.chunkSize)
        n == data.numberOfChunks
        of == <<"o", "f">>
        pad(i) == FormatPadded(i, minFormatZeroes)
        total == pad(n)
        mtime == FormatInt(data.mtime.sec)
        ext == chunkFileExtension
        varied == {Max(n, 1)}
    IN  {lst.entries[i].Name : i \in 1..Len(lst.entries)}
        \cup {BuildName(fs, f.hash, pad(i), of, total, mtime, ext) : i \in 0..(n + 1)}
        \cup {BuildName(fs, f.hash, FormatInt(i), of, total, mtime, ext) : i \in varied}
        \cup {BuildName(fs, f.hash, <<"+">> \o pad(i), of, total, mtime, ext) : i \in varied}
        \cup {BuildName(fs, f.hash, <<"-">> \o pad(i), of, total, mtime, ext) : i \in varied}
        \cup {BuildName(fs, f.hash, pad(i), of, FormatInt(n), mtime, ext) : i \in varied}
        \cup {BuildName(fs, f.hash, pad(i), of, total, <<"+">> \o mtime, ext) : i \in varied}
        \cup {BuildName(fs, f.hash, pad(i), of, total, mtime \o <<"x">>, ext) : i \in varied}
        \cup {BuildName(fs, f.hash, pad(i), <<"f", "o">>, total, mtime, ext) : i \in varied}
        \cup {BuildName(fs, OtherHash, pad(i), of, total, mtime, ext) : i \in varied}
        \cup {BuildName(fs, f.hash, pad(i), of, total, mtime, <<>>) : i \in varied}
        \cup {BuildName(WithPolicy(fs, p), f.hash, pad(i), of, total, mtime, ext) :
                i \in varied, p \in Policies}

(***************************************************************************)
(* Construction.                                                           *)
(***************************************************************************)
\* NewFS with the options FilenameIncludesTotalChunks and FilenameIncludesMtime
NewFS(chunkSize, includesTotalChunks, includesMtime) ==
    IF chunkSize <= 0 THEN [err |-> "chunksize must be larger than 0"]
    ELSE [err |-> "nil",
          fs |-> [chunkSize |-> chunkSize,
                  filenameIncludesTotalChunks |-> includesTotalChunks,
                  filenameIncludesMtime |-> includesMtime]]

\* the fileAsDir node directory.Lookup makes for the source file: the digest
\* string and the 64-bit number that fileHash.Digest() returns for its path
NewFileAsDir == [hash |-> <<"d", "0", "0", "d">>, inodeBase |-> 53261]

\* the blocks of 512 bytes the host allots a file: whole pages of 4096 bytes
SourceBlocks(size) == 8 * ((size + 4095) \div 4096)

SourceFile(size, mtime, mode) ==
    [exists |-> TRUE, data |-> SourceData(size), mtime |-> mtime, mode |-> mode,
     ino |-> 1234, nlink |-> 1, uid |-> 1000]

\* os.Stat and syscall.Lstat of the source file (a regular file: they agree)
StatSource(src) ==
    IF ~src.exists THEN [err |-> "ENOENT"]
    ELSE [err |-> "nil", size |-> Len(src.data), mtime |-> src.mtime, mode |-> src.mode,
          ino |-> src.ino, nlink |-> src.nlink, uid |-> src.uid,
          blocks |-> SourceBlocks(Len(src.data))]

\* the permission and special bits a regular source file has in the model
SourceModes ==
    {S_IFREG + perm : perm \in {\o644, \o600, \o755, \o555, \o000, \o777, \o4755, \o2640}}

FirstInstant == [sec |-> 1700000000, nsec |-> 0]

InitMount ==
    /\ \E c \in 0..MaxChunkSize, t \in BOOLEAN, m \in BOOLEAN :
          /\ NewFS(c, t, m).err = "nil"
          /\ splitFS = NewFS(c, t, m).fs
    /\ fileAsDir = NewFileAsDir
    /\ listing = NotListed
    /\ reply = NoReply
    /\ handle = NoHandle
    /\ nextHandleID = firstHandleID
    /\ openFiles = {}
    /\ tree = NoTree
    /\ calls = [c \in Clients |-> Idle]
    /\ handed = <<>>

Init ==
    /\ InitMount
    /\ \E size \in 0..MaxFileSize : source = SourceFile(size, FirstInstant, S_IFREG + \o644)

(***************************************************************************)
(* The source changes under the mount.                                     *)
(***************************************************************************)
\* the file is truncated or extended to n bytes.  The write that does it falls
\* within the granularity of the host's timestamps, or its writer restores the
\* mtime: the change of the mtime that usually goes with it is SourceUtimes.
SourceResize(n) ==
    /\ source.exists
    /\ n # Len(source.data)
    /\ source' = [source EXCEPT !.data = SourceData(n)]
    /\ reply' = NoReply
    /\ UNCHANGED <<tree, calls, handed, splitFS, fileAsDir, listing, handle, nextHandleID, openFiles>>

\* utimes: the mtime becomes t
SourceUtimes(t) ==
    /\ source.exists
    /\ t # source.mtime
    /\ source' = [source EXCEPT !.mtime = t]
    /\ reply' = NoReply
    /\ UNCHANGED <<tree, calls, handed, splitFS, fileAsDir, listing, handle, nextHandleID, openFiles>>

\* chmod: the permission and special bits become those of mode
SourceChmod(mode) ==
    /\ source.exists
    /\ mode # source.mode
    /\ source' = [source EXCEPT !.mode = mode]
    /\ reply' = NoReply
    /\ UNCHANGED <<tree, calls, handed, splitFS, fileAsDir, listing, handle, nextHandleID, openFiles>>

(***************************************************************************)
(* The handlers.                                                           *)
(***************************************************************************)
\* fileAsDir.ReadDirAll
FileAsDirReadDirAll ==
    LET stat == StatSource(source)
    IN  /\ IF stat.err # "nil"
           THEN /\ reply' = [op |-> "ReadDirAll", err |-> osToFuseErr(stat.err)]
                /\ UNCHANGED listing
           ELSE /\ reply' = [op |-> "ReadDirAll", err |-> "nil"]
                /\ listing' = [op |-> "ReadDirAll", stat |-> stat,
                               entries |-> ReadDirAllEntries(splitFS, fileAsDir,
                                              getData(stat, splitFS.chunkSize))]
        /\ UNCHANGED <<tree, calls, handed, splitFS, source, fileAsDir, handle, nextHandleID, openFiles>>

\* fileAsDir.Lookup
FileAsDirLookup(name) ==
    LET r == Lookup(splitFS, fileAsDir, name, StatSource(source))
    IN  /\ reply' = [op |-> "Lookup", name |-> name, err |-> r.err,
                     node |-> IF r.err = "nil" THEN r.node ELSE [chunk |-> 0, offset |-> 0, size |-> 0]]
        /\ UNCHANGED <<tree, calls, handed, splitFS, source, fileAsDir, listing, handle, nextHandleID, openFiles>>

\* fileAsDir.Attr
FileAsDirGetAttr ==
    LET r == FileAsDirAttr(StatSource(source))
    IN  /\ reply' = [op |-> "FileAsDirAttr", err |-> r.err, attr |-> r.attr]
        /\ UNCHANGED <<tree, calls, handed, splitFS, source, fileAsDir, listing, handle, nextHandleID, openFiles>>

\* fileChunk.Open on the node the last Lookup returned
FileChunkOpen(flags, openErr) ==
    /\ reply.op = "Lookup" /\ reply.err = "nil"
    /\ handle = NoHandle
    /\ nextHandleID < firstHandleID + MaxOpens
    /\ Cardinality(openFiles) < MaxOpens
    /\ LET r == ChunkOpen(reply.node, flags, openErr, openFiles, nextHandleID)
       IN  /\ reply' = [op |-> "Open", err |-> r.err]
           /\ handle' = r.handle
           /\ openFiles' = r.open
           /\ nextHandleID' = IF r.err = "nil" THEN nextHandleID + 1 ELSE nextHandleID
    /\ UNCHANGED <<tree, calls, handed, splitFS, source, fileAsDir, listing>>

\* fileChunkHandle.Read
FileChunkHandleRead(offset, size) ==
    /\ handle # NoHandle
    /\ LET r == ReadReply(handle.node, source.data, offset, size)
       IN  reply' = [op |-> "Read", offset |-> offset, size |-> size,
                     err |-> r.err, data |-> r.data]
    /\ UNCHANGED <<tree, calls, handed, splitFS, source, fileAsDir, listing, handle, nextHandleID, openFiles>>

\* fileChunkHandle.Release
FileChunkHandleRelease ==
    /\ handle # NoHandle
    /\ openFiles' = openFiles \ {handle.file}
    /\ handle' = NoHandle
    /\ reply' = [op |-> "Release", err |-> "nil"]
    /\ UNCHANGED <<tree, calls, handed, splitFS, source, fileAsDir, listing, nextHandleID>>

(***************************************************************************)
(* The filename protocol: listings, lookups and a changing source.         *)
(***************************************************************************)
Next ==
    \/ FileAsDirReadDirAll
    \/ \E name \in (IF listing = NotListed THEN {}
                    ELSE CandidateNames(splitFS, fileAsDir, listing)) : FileAsDirLookup(name)
    \/ \E n \in 0..MaxFileSize : SourceResize(n)
    \/ \E t \in Instants : SourceUtimes(t)

Spec == Init /\ [][Next]_vars

(***************************************************************************)
(* Properties of the filename protocol.                                    *)
(***************************************************************************)
\* ceil(size / chunkSize), by its defining inequalities
IsCeil(n, size, chunkSize) ==
    /\ n >= 0
    /\ n * chunkSize >= size
    /\ (n - 1) * chunkSize < size

\* the names of the listing the client holds
ListedNames ==
    IF listing = NotListed THEN {} ELSE {listing.entries[i].Name : i \in 1..Len(listing.entries)}

\* the source is as it was when the listing was made
ListingFresh == listing # NotListed /\ listing.stat = StatSource(source)

\* the 1-based index a chunk name carries, 0 - 1 if it has none
IndexInName(name) ==
    LET m == ParseMtime(splitFS, name)
        p == ParseParts(splitFS, m.name)
    IN  IF m.ok /\ p.ok /\ ParseInt(p.chunkPart).ok THEN ParseInt(p.chunkPart).value ELSE -1

\* C2: for a source file with at least one chunk, the node Lookup returns for the
\* last chunk has size source_size mod chunk_size when that is nonzero and
\* chunk_size when it is zero; every other chunk has size chunk_size.
C2_LastChunkSize ==
    (reply.op = "Lookup" /\ reply.err = "nil" /\ reply.node.chunk >= 0 /\ Len(source.data) > 0)
    => LET size == Len(source.data)
           cs == splitFS.chunkSize
           last == (size + cs - 1) \div cs - 1
       IN  /\ reply.node.chunk = last =>
                reply.node.size = (IF size % cs # 0 THEN size % cs ELSE cs)
           /\ reply.node.chunk < last => reply.node.size = cs

\* C3: ReadDirAll returns exactly ceil(source_size / chunk_size) entries, one per
\* chunk, carrying the 1-based indices 1..num_chunks in ascending order, each a
\* regular file; an empty source gives an empty listing and an exact multiple of
\* the chunk size gives no extra trailing entry.
C3_ListingCount ==
    listing # NotListed
    => /\ IsCeil(Len(listing.entries), listing.stat.size, splitFS.chunkSize)
       /\ \A i \in 1..Len(listing.entries) :
            /\ listing.entries[i].Type = "DT_File"
            /\ IndexInName(listing.entries[i].Name) = i

C3_Witness ==
    /\ listing # NotListed
    /\ Len(listing.entries) = 2
    /\ listing.stat.size = 2 * splitFS.chunkSize

\* C4: under each filename policy, a name ReadDirAll emitted for the 1-based index
\* i, looked up on the same fileAsDir with the source unchanged, resolves to the
\* chunk with index i - 1 and offset (i - 1) * chunk_size, never to ENOENT.
C4_ReaddirLookupRoundTrip ==
    (reply.op = "Lookup" /\ ListingFresh)
    => \A i \in 1..Len(listing.entries) :
         listing.entries[i].Name = reply.name
         => /\ reply.err = "nil"
            /\ reply.node.chunk = i - 1
            /\ reply.node.offset = (i - 1) * splitFS.chunkSize

C4_Witness ==
    /\ reply.op = "Lookup" /\ ListingFresh
    /\ splitFS.filenameIncludesMtime /\ ~splitFS.filenameIncludesTotalChunks
    /\ Len(listing.entries) >= 2
    /\ listing.entries[2].Name = reply.name
    /\ reply.err = "nil"

\* the names the format can produce under the active policy: some index of some
\* number of chunks, with some mtime
Producible(name) ==
    \E total \in 1..(MaxFileSize + 2), sec \in MtimeSeconds :
        \E i \in 1..total :
            name = ChunkName(splitFS, fileAsDir.hash, i,
                             [numberOfChunks |-> total, lastChunkSize |-> 0,
                              mtime |-> TimeUnix(sec)])

\* C5: Lookup fails with ENOENT for every name the format cannot produce under
\* the active policy: an index or total not padded to 8 digits, a sign, an mtime
\* that is not plain digits.
C5_UnproducibleRejected ==
    (reply.op = "Lookup" /\ ~Producible(reply.name)) => reply.err = "ENOENT"

\* C6: Lookup returns a chunk only when the parsed 1-based index lies in
\* [1, num_chunks] for the current source size: no chunk it returns has a
\* negative index or a negative offset.
C6_IndexInRange ==
    (reply.op = "Lookup" /\ reply.err = "nil")
    => /\ reply.node.chunk >= 0
       /\ reply.node.offset >= 0
       /\ IsCeil(Max(reply.node.chunk + 1, (Len(source.data) + splitFS.chunkSize - 1)
                                              \div splitFS.chunkSize),
                 Len(source.data), splitFS.chunkSize)

\* a name of the held listing has been looked up after the source size changed
StaleSizeLookup ==
    /\ splitFS.filenameIncludesTotalChunks
    /\ reply.op = "Lookup"
    /\ reply.name \in ListedNames
    /\ listing.stat.size # Len(source.data)

\* the chunk the looked up name denoted when it was listed
ListedChunk == Lookup(splitFS, fileAsDir, reply.name, listing.stat).node

MtimeLookup ==
    /\ splitFS.filenameIncludesMtime
    /\ reply.op = "Lookup"
    /\ reply.name \in ListedNames

\* the listed names carry ".mtime=<unix seconds of the source mtime>" before the extension
ListedNamesCarryMtime ==
    (splitFS.filenameIncludesMtime /\ listing # NotListed)
    => \A name \in ListedNames :
         HasSuffix(name, <<".", "m", "t", "i", "m", "e", "=">>
                         \o Decimal(listing.stat.mtime.sec) \o chunkFileExtension)

\* C9 as stated: with the mtime in the names, after the mtime of the source is
\* altered a Lookup of a name listed before returns ENOENT.
C9_AlteredMtimeRejected ==
    /\ ListedNamesCarryMtime
    /\ (MtimeLookup /\ listing.stat.mtime # source.mtime) => reply.err = "ENOENT"

\* C9 amended: the names carry the whole seconds of the mtime, and after the
\* mtime is altered to another whole second a Lookup of a name listed before
\* returns ENOENT.
C9_AlteredSecondRejected ==
    /\ ListedNamesCarryMtime
    /\ (MtimeLookup /\ listing.stat.mtime.sec # source.mtime.sec) => reply.err = "ENOENT"

C9_Witness ==
    /\ MtimeLookup
    /\ listing.stat.mtime.sec # source.mtime.sec
    /\ listing.stat.size = Len(source.data)
    /\ reply.err = "ENOENT"

(***************************************************************************)
(* Reading chunks: the mount NewFS builds by default (the total in the     *)
(* names, no mtime), handles opened on looked up chunks, read requests,    *)
(* and a source that is truncated and extended under the open handles.     *)
(***************************************************************************)
InitRead ==
    /\ Init
    /\ splitFS.filenameIncludesTotalChunks
    /\ ~splitFS.filenameIncludesMtime

\* what os.Open of the source file answers
OpenErrs == {"nil", "EACCES", "EMFILE"}

OpenFlags == {"O_RDONLY", "O_WRONLY", "O_RDWR"}

\* the names in the layout of the listing with every index from 0 to one past the last
IndexNames(fs, f, lst) ==
    LET data == getData(lst.stat, fs.chunkSize)
    IN  {BuildName(fs, f.hash, FormatPadded(i, minFormatZeroes), <<"o", "f">>,
                   FormatPadded(data.numberOfChunks, minFormatZeroes),
                   FormatInt(data.mtime.sec), chunkFileExtension) :
            i \in 0..(data.numberOfChunks + 1)}

NextRead ==
    \/ FileAsDirReadDirAll
    \/ \E name \in (IF listing = NotListed THEN {}
                    ELSE IndexNames(splitFS, fileAsDir, listing)) : FileAsDirLookup(name)
    \/ \E flags \in OpenFlags, openErr \in OpenErrs : FileChunkOpen(flags, openErr)
    \/ \E offset \in 0..MaxRead, size \in 0..MaxRead : FileChunkHandleRead(offset, size)
    \/ FileChunkHandleRelease
    \/ \E n \in 0..MaxFileSize : SourceResize(n)

SpecRead == InitRead /\ [][NextRead]_vars

\* C7: a Read on a chunk handle returns the source bytes of
\* [chunk_offset + offset, chunk_offset + min(chunk_size, offset + size)) that the
\* file holds, so never a byte of an adjacent chunk; an offset at or past the
\* size of the chunk gives no bytes and no error, and a size past the rest of the
\* chunk is clamped.
C7_WindowedRead ==
    reply.op = "Read"
    => LET lo == handle.node.offset + reply.offset
           hi == Min(handle.node.offset + Min(handle.node.size, reply.offset + reply.size),
                     Len(source.data))
       IN  /\ reply.data = [k \in 1..Max(0, hi - lo) |-> source.data[lo + k]]
           /\ Len(reply.data) <= reply.size
           /\ reply.offset >= handle.node.size => (reply.data = <<>> /\ reply.err = "nil")

C7_Witness ==
    /\ reply.op = "Read"
    /\ reply.size > handle.node.size - reply.offset
    /\ Len(reply.data) > 0
    /\ Len(source.data) > handle.node.offset + handle.node.size

(***************************************************************************)
(* cat of the chunk files of the virtual directory, in the order of the    *)
(* listing: every name is looked up, opened read-only, read with requests  *)
(* of bufSize bytes until a read returns nothing, and released.            *)
(***************************************************************************)
\* the bytes the reads of one handle return, from offset on
RECURSIVE ReadFully(_, _, _, _)
ReadFully(node, data, offset, bufSize) ==
    LET r == ReadReply(node, data, offset, bufSize)
    IN  IF r.err # "nil" \/ r.data = <<>> THEN <<>>
        ELSE r.data \o ReadFully(node, data, offset + Len(r.data), bufSize)

\* cat from entry k on: the output, the next handle id and the descriptors left open
RECURSIVE CatFrom(_, _, _, _, _)
CatFrom(entries, k, bufSize, id, open) ==
    IF k > Len(entries) THEN [out |-> <<>>, id |-> id, open |-> open]
    ELSE LET found == Lookup(splitFS, fileAsDir, entries[k].Name, StatSource(source))
             opened == ChunkOpen(found.node, "O_RDONLY", "nil", open, id)
         IN  IF found.err # "nil" THEN CatFrom(entries, k + 1, bufSize, id, open)
             ELSE IF opened.err # "nil"
                  THEN CatFrom(entries, k + 1, bufSize, id, opened.open)
                  ELSE LET rest == CatFrom(entries, k + 1, bufSize, id + 1,
                                           opened.open \ {opened.handle.file})
                       IN  [rest EXCEPT !.out =
                              ReadFully(opened.handle.node, source.data, 0, bufSize) \o @]

Cat(bufSize) ==
    LET entries == ReadDirAllEntries(splitFS, fileAsDir,
                                     getData(StatSource(source), splitFS.chunkSize))
        r == CatFrom(entries, 1, bufSize, nextHandleID, openFiles)
    IN  /\ source.exists
        /\ nextHandleID + Len(entries) <= firstHandleID + MaxCatOpens
        /\ reply' = [op |-> "Cat", bufSize |-> bufSize, data |-> r.out]
        /\ nextHandleID' = r.id
        /\ openFiles' = r.open
        /\ UNCHANGED <<tree, calls, handed, splitFS, source, fileAsDir, listing, handle>>

NextCat ==
    \/ \E bufSize \in 1..MaxRead : Cat(bufSize)
    \/ \E n \in 0..MaxFileSize : SourceResize(n)

SpecCat == Init /\ [][NextCat]_vars

\* C1: for every source regular file with size > 0 and every chunk size, the
\* chunks read in the order of the listing and concatenated equal the content of
\* the file, also when the size is an exact multiple of the chunk size.
C1_CatRoundTrip ==
    (reply.op = "Cat" /\ Len(source.data) > 0) => reply.data = source.data

(***************************************************************************)
(* Attributes of the virtual directory over source files of several modes. *)
(***************************************************************************)
InitAttr ==
    /\ InitMount
    /\ \E size \in 0..MaxFileSize, mode \in SourceModes :
          source = SourceFile(size, FirstInstant, mode)

NextAttr ==
    \/ FileAsDirGetAttr
    \/ \E mode \in SourceModes : SourceChmod(mode)
    \/ \E n \in 0..MaxFileSize : SourceResize(n)

SpecAttr == InitAttr /\ [][NextAttr]_vars

\* the attributes fileAsDir.Attr takes over from lstat
LstatAttributesKept ==
    LET stat == StatSource(source)
    IN  /\ reply.attr.Inode = stat.ino
        /\ reply.attr.Nlink = stat.nlink
        /\ reply.attr.Uid = stat.uid
        /\ reply.attr.Size = stat.size
        /\ reply.attr.Blocks = stat.blocks
        /\ reply.attr.Mtime = stat.mtime

\* bit b of the st_mode of the source file is set
SourceModeBit(b) == (source.mode \div Pow2(b)) % 2 = 1

\* C10 as stated: fileAsDir.Attr reports mode 0555 plus the directory bit
\* whatever the permission bits of the source file; the other attributes are
\* those of lstat.
C10_ModeForced ==
    (reply.op = "FileAsDirAttr" /\ reply.err = "nil")
    => /\ reply.attr.Mode = {0, 2, 3, 5, 6, 8} \cup {31}
       /\ LstatAttributesKept

\* C10 amended: fileAsDir.Attr reports the directory bit plus those read and
\* execute bits that the source file has: its permission bits masked with 0555,
\* no write bit, no setuid, setgid or sticky bit; the other attributes are those
\* of lstat.
C10_ModeMasked ==
    (reply.op = "FileAsDirAttr" /\ reply.err = "nil")
    => /\ reply.attr.Mode = {b \in {0, 2, 3, 5, 6, 8} : SourceModeBit(b)} \cup {31}
       /\ LstatAttributesKept

C10_Witness ==
    /\ reply.op = "FileAsDirAttr" /\ reply.err = "nil"
    /\ source.mode = S_IFREG + \o644
    /\ reply.attr.Mode = {2, 5, 8, 31}

(***************************************************************************)
(* Concurrent Opens and Releases.  Each client serves one request at a     *)
(* time; the steps of an Open (the test of the flags, os.Open, Seek, the   *)
(* receive from handleIDProvider) interleave with the steps of the other   *)
(* client.  The nodes are the directFile of the source file, were it       *)
(* excluded, and the chunks fileAsDir.Lookup returns for it.               *)
(***************************************************************************)
\* descriptors the process may hold: os.Open answers EMFILE beyond
MaxDescriptors == 3
\* handle ids handed out in one behaviour
MaxHandleIDs == 3

DirectFileNode == [direct |-> TRUE, chunk |-> 0, offset |-> 0, size |-> 0]

\* the chunk nodes fileAsDir.Lookup returns for the names of every index
ChunkNodes ==
    LET stat == StatSource(source)
        found == {Lookup(splitFS, fileAsDir, name, stat) :
                     name \in IndexNames(splitFS, fileAsDir, [stat |-> stat])}
    IN  {[direct |-> FALSE, chunk |-> r.node.chunk, offset |-> r.node.offset,
          size |-> r.node.size] : r \in {f \in found : f.err = "nil"}}

\* the id the provider sends after id, without the increment
NextIDStuck(id) == id

\* the id the provider sends after id: id++
NextID(id) == id + 1

OpenReply(c, flags, err, id) ==
    [op |-> "Open", client |-> c, flags |-> flags, err |-> err, id |-> id]

\* Open is called: a request that is not read-only is answered EROFS at once
OpenCall(c, node, flags) ==
    /\ calls[c].pc = "idle"
    /\ IF ~IsReadOnly(flags)
       THEN /\ reply' = OpenReply(c, flags, "EROFS", 0)
            /\ UNCHANGED calls
       ELSE /\ calls' = [calls EXCEPT ![c] = [pc |-> "open", node |-> node, flags |-> flags]]
            /\ UNCHANGED reply
    /\ UNCHANGED <<splitFS, source, fileAsDir, listing, handle, nextHandleID, openFiles,
                   tree, handed>>

\* os.Open of the source file
OpenFile(c, openErr) ==
    LET call == calls[c]
        err == IF Cardinality(openFiles) >= MaxDescriptors THEN "EMFILE" ELSE openErr
        fd == NewFd(openFiles)
        seeks == ~call.node.direct /\ call.node.offset # 0
    IN  /\ call.pc = "open"
        /\ IF err # "nil"
           THEN /\ reply' = OpenReply(c, call.flags, osToFuseErr(err), 0)
                /\ calls' = [calls EXCEPT ![c] = Idle]
                /\ UNCHANGED openFiles
           ELSE /\ openFiles' = openFiles \cup {fd}
                /\ calls' = [calls EXCEPT ![c] =
                      [pc |-> IF seeks THEN "seek" ELSE "id", node |-> call.node,
                       flags |-> call.flags, file |-> fd]]
                /\ UNCHANGED reply
        /\ UNCHANGED <<splitFS, source, fileAsDir, listing, handle, nextHandleID,
                       tree, handed>>

\* file.Seek(f.offset, 0) of fileChunk.Open: on an error Open returns with the
\* descriptor still open
OpenSeek(c) ==
    LET call == calls[c]
        err == SeekErr(call.node.offset)
    IN  /\ call.pc = "seek"
        /\ IF err # "nil"
           THEN /\ reply' = OpenReply(c, call.flags, osToFuseErr(err), 0)
                /\ calls' = [calls EXCEPT ![c] = Idle]
           ELSE /\ calls' = [calls EXCEPT ![c].pc = "id"]
                /\ UNCHANGED reply
        /\ UNCHANGED <<splitFS, source, fileAsDir, listing, handle, nextHandleID, openFiles,
                       tree, handed>>

\* resp.Handle = <-handleIDProvider: the provider's send and the receive are one step
OpenTakeID(c) ==
    LET call == calls[c]
    IN  /\ call.pc = "id"
        /\ Len(handed) < MaxHandleIDs
        /\ calls' = [calls EXCEPT ![c] =
              [pc |-> "handle", node |-> call.node, file |-> call.file, id |-> nextHandleID]]
        /\ nextHandleID' = NextID(nextHandleID)
        /\ handed' = Append(handed, nextHandleID)
        /\ reply' = OpenReply(c, call.flags, "nil", nextHandleID)
        /\ UNCHANGED <<splitFS, source, fileAsDir, listing, handle, openFiles, tree>>

\* Release of directFileHandle and fileChunkHandle: f.file.Close()
HandleRelease(c) ==
    /\ calls[c].pc = "handle"
    /\ openFiles' = openFiles \ {calls[c].file}
    /\ calls' = [calls EXCEPT ![c] = Idle]
    /\ reply' = [op |-> "Release", client |-> c, err |-> "nil"]
    /\ UNCHANGED <<splitFS, source, fileAsDir, listing, handle, nextHandleID, tree, handed>>

\* a source file of two chunks, names in the default layout
InitOpen ==
    /\ Init
    /\ splitFS.filenameIncludesTotalChunks /\ ~splitFS.filenameIncludesMtime
    /\ Len(source.data) = MaxFileSize
    /\ splitFS.chunkSize = MaxFileSize - 1

NextOpen ==
    \/ \E c \in Clients, node \in {DirectFileNode} \cup ChunkNodes, flags \in OpenFlags :
          OpenCall(c, node, flags)
    \/ \E c \in Clients, openErr \in {"nil", "EACCES"} : OpenFile(c, openErr)
    \/ \E c \in Clients : OpenSeek(c)
    \/ \E c \in Clients : OpenTakeID(c)
    \/ \E c \in Clients : HandleRelease(c)

SpecOpen == InitOpen /\ [][NextOpen]_vars

\* C11: an Open of a chunk or a directFile with flags that are not read-only is
\* answered EROFS, and the step that answers EROFS opens no descriptor, takes no
\* handle id and starts no call; no step of the mount changes the source file.
C11_ReadOnly ==
    /\ []((reply.op = "Open" /\ reply.flags # "O_RDONLY") => reply.err = "EROFS")
    /\ [][(reply'.op = "Open" /\ reply'.err = "EROFS" /\ reply' # reply)
            => UNCHANGED <<openFiles, nextHandleID, handed, calls>>]_vars
    /\ [][source' = source]_vars

C11_Witness ==
    /\ reply.op = "Open" /\ reply.flags = "O_RDWR" /\ reply.err = "EROFS"
    /\ \E c \in Clients : calls[c].pc = "handle" /\ ~calls[c].node.direct
    /\ \E c \in Clients : calls[c].pc = "idle"

\* C17: under every interleaving of the Opens of the clients, the handle ids the
\* successful Opens receive start at 2 or above, each is one more than the id
\* handed out before it, so no id is handed out twice, and the handles that are
\* open at the same time carry different ids.
C17_HandleIDs ==
    /\ \A i \in 1..Len(handed) :
          /\ handed[i] >= 2
          /\ i > 1 => handed[i] = handed[i - 1] + 1
    /\ (reply.op = "Open" /\ reply.err = "nil") => reply.id = handed[Len(handed)]
    /\ \A c \in Clients : calls[c].pc = "handle" =>
          /\ \E i \in 1..Len(handed) : handed[i] = calls[c].id
          /\ \A d \in Clients \ {c} : calls[d].pc = "handle" => calls[d].id # calls[c].id

C17_Witness ==
    /\ Len(handed) >= 3
    /\ \E c, d \in Clients :
          /\ calls[c].pc = "handle" /\ calls[c].node.direct
          /\ calls[d].pc = "handle" /\ ~calls[d].node.direct
          /\ calls[d].id < calls[c].id

\* C18: when no Open is in progress, every descriptor of the source file that is
\* open belongs to exactly one handle that was returned and not yet released,
\* whatever Opens failed before.
C18_DescriptorsOwned ==
    (\A c \in Clients : calls[c].pc \in {"idle", "handle"})
    => \A fd \in openFiles :
          Cardinality({c \in Clients : calls[c].pc = "handle" /\ calls[c].file = fd}) = 1

(***************************************************************************)
(* Two handles on one chunk node: the clients open the same fileChunk,     *)
(* read through their handles and release them in any order.               *)
(***************************************************************************)
\* fileChunkHandle.Read on a handle: ReadAt on its descriptor, os.ErrClosed
\* (reported as ENOSYS) when the descriptor is closed
HandleRead(call, open, data, offset, size) ==
    IF call.file \notin open THEN [err |-> osToFuseErr("ErrClosed"), data |-> <<>>]
    ELSE ReadReply(call.node, data, offset, size)

\* fileChunk.Open by client c, read-only, on the node the other client has open, if any
ShareOpen(c, node) ==
    LET openErr == IF Cardinality(openFiles) >= MaxDescriptors THEN "EMFILE" ELSE "nil"
        r == ChunkOpen(node, "O_RDONLY", openErr, openFiles, nextHandleID)
    IN  /\ calls[c].pc = "idle"
        /\ \A d \in Clients : calls[d].pc = "handle" => calls[d].node = node
        /\ Len(handed) < MaxHandleIDs
        /\ openFiles' = r.open
        /\ reply' = OpenReply(c, "O_RDONLY", r.err, r.handle.id)
        /\ IF r.err = "nil"
           THEN /\ calls' = [calls EXCEPT ![c] =
                      [pc |-> "handle", node |-> node, file |-> r.handle.file, id |-> r.handle.id]]
                /\ nextHandleID' = NextID(nextHandleID)
                /\ handed' = Append(handed, nextHandleID)
           ELSE UNCHANGED <<calls, nextHandleID, handed>>
        /\ UNCHANGED <<splitFS, source, fileAsDir, listing, handle, tree>>

ShareRead(c, offset, size) ==
    LET r == HandleRead(calls[c], openFiles, source.data, offset, size)
    IN  /\ calls[c].pc = "handle"
        /\ reply' = [op |-> "Read", client |-> c, offset |-> offset, size |-> size,
                     err |-> r.err, data |-> r.data]
        /\ UNCHANGED <<splitFS, source, fileAsDir, listing, handle, nextHandleID, openFiles,
                       tree, calls, handed>>

NextShare ==
    \/ \E c \in Clients, node \in ChunkNodes : ShareOpen(c, node)
    \/ \E c \in Clients, offset \in 0..MaxRead, size \in 0..MaxRead : ShareRead(c, offset, size)
    \/ \E c \in Clients : HandleRelease(c)

SpecShare == InitOpen /\ [][NextShare]_vars

\* C19: with two handles on one chunk node, every Read on a handle that is not
\* released succeeds and returns the bytes of the chunk's window that it returns
\* with no other handle around, whatever the other handle read or whether it was
\* released; the two handles hold different descriptors, each of them open.
C19_IndependentHandles ==
    /\ reply.op = "Read" =>
          LET node == calls[reply.client].node
              lo == node.offset + reply.offset
              hi == Min(node.offset + Min(node.size, reply.offset + reply.size),
                        Len(source.data))
          IN  /\ reply.err = "nil"
              /\ reply.data = [k \in 1..Max(0, hi - lo) |-> source.data[lo + k]]
    /\ \A c \in Clients : calls[c].pc = "handle" =>
          /\ calls[c].file \in openFiles
          /\ \A d \in Clients \ {c} : calls[d].pc = "handle" => calls[d].file # calls[c].file

\* the second handle reads after the first, opened on the same node, was released
C19_Witness ==
    /\ reply.op = "Read" /\ Len(reply.data) > 0
    /\ calls[reply.client].file = 4
    /\ openFiles = {4}
    /\ \A d \in Clients \ {reply.client} : calls[d].pc = "idle"

(***************************************************************************)
(* directory: a source directory with entries of every kind, read and      *)
(* looked up through a directory node.                                     *)
(***************************************************************************)
\* entries a source directory holds
MaxEntries == 2

ModeDevice == {26}
ModeNamedPipe == {25}
ModeSocket == {24}
ModeCharDevice == {21}
ModeType == ModeDir \cup ModeSymlink \cup ModeNamedPipe \cup ModeSocket \cup ModeDevice
            \cup ModeCharDevice

\* the type bits of the os.FileMode that lstat gives for each kind of entry
KindMode(kind) ==
    CASE kind = "regular" -> {}
      [] kind = "dir" -> ModeDir
      [] kind = "symlink" -> ModeSymlink
      [] kind = "socket" -> ModeSocket
      [] kind = "block" -> ModeDevice
      [] kind = "char" -> ModeDevice \cup ModeCharDevice
      [] kind = "fifo" -> ModeNamedPipe

Kinds == {"regular", "dir", "symlink", "socket", "block", "char", "fifo"}

\* os.FileMode.IsRegular and IsDir
IsRegular(mode) == mode \cap ModeType = {}
IsDir(mode) == ModeDir \subseteq mode

\* path.Join of two clean elements: the empty one is dropped
PathJoin(a, b) ==
    IF a = <<>> THEN b ELSE IF b = <<>> THEN a ELSE a \o <<"/">> \o b

\* filepath.Abs: a path that is not rooted is joined to the working directory
Abs(cwd, p) == IF Len(p) > 0 /\ p[1] = "/" THEN p ELSE PathJoin(cwd, p)

\* a compiled regexp of the form lit, ^lit or lit$
NoRegexp == [set |-> FALSE]
Regexp(start, lit, end) == [set |-> TRUE, start |-> start, lit |-> lit, end |-> end]

\* regexp.MatchString: the pattern matches somewhere in s
MatchString(re, str) ==
    \E i \in 1..(Len(str) - Len(re.lit) + 1) :
        /\ SubSeq(str, i, i + Len(re.lit) - 1) = re.lit
        /\ re.start => i = 1
        /\ re.end => i + Len(re.lit) - 1 = Len(str)

\* splitFS.IsExcluded
IsExcluded(fs, path) ==
    IF ~fs.excludeRegexp.set THEN FALSE ELSE MatchString(fs.excludeRegexp, path)

\* NewFS with the source directory and the option ExcludeRegexp
NewFSAt(cwd, sourceDirectory, exclude) ==
    NewFS(1, TRUE, FALSE).fs
        @@ [sourceDirectory |-> Abs(cwd, sourceDirectory), excludeRegexp |-> exclude]

\* node.FullPath
FullPath(fs, rootRelativePath) == PathJoin(fs.sourceDirectory, rootRelativePath)

\* the bytes of the characters of the names
ByteOf(c) == CASE c = "." -> 46 [] c = "/" -> 47 [] c = "a" -> 97 [] c = "b" -> 98
               [] c = "d" -> 100 [] c = "s" -> 115 [] c = "w" -> 119

\* a < b as Go compares strings
NameLess(a, b) ==
    \E k \in 1..(Min(Len(a), Len(b)) + 1) :
        /\ \A i \in 1..(k - 1) : a[i] = b[i]
        /\ \/ k > Len(a) /\ k <= Len(b)
           \/ k <= Len(a) /\ k <= Len(b) /\ ByteOf(a[k]) < ByteOf(b[k])

\* ReadDir that leaves the entries in the order of the host
ReadDirHostOrder(entries) == entries

\* ioutil.ReadDir: the entries of the directory sorted by filename
RECURSIVE ReadDir(_)
ReadDir(entries) ==
    IF entries = <<>> THEN <<>>
    ELSE LET i == CHOOSE k \in 1..Len(entries) :
                     \A j \in 1..Len(entries) :
                         j # k => NameLess(entries[k].name, entries[j].name)
         IN  <<entries[i]>>
             \o ReadDir(SubSeq(entries, 1, i - 1) \o SubSeq(entries, i + 1, Len(entries)))

\* the dirent type directory.ReadDirAll gives an entry
DirentType(mode, isExcluded) ==
    IF IsRegular(mode) THEN (IF isExcluded THEN "DT_File" ELSE "DT_Dir")
    ELSE IF IsDir(mode) THEN "DT_Dir"
    ELSE IF mode \cap ModeSymlink # {} THEN "DT_Link"
    ELSE IF mode \cap ModeSocket # {} THEN "DT_Socket"
    ELSE IF mode \cap ModeDevice # {} THEN "DT_Block"
    ELSE IF mode \cap ModeCharDevice # {} THEN "DT_Char"
    ELSE IF mode \cap ModeNamedPipe # {} THEN "DT_FIFO"
    ELSE "DT_Unknown"

\* directory.ReadDirAll on the directory node of t
DirReadDirAllEntries(fs, t) ==
    LET fullPath == FullPath(fs, t.dir)
        files == ReadDir(t.entries)
    IN  [i \in 1..Len(files) |->
            [Inode |-> files[i].ino,
             Type |-> DirentType(KindMode(files[i].kind),
                                 IsExcluded(fs, PathJoin(fullPath, files[i].name))),
             Name |-> files[i].name]]

\* the path directory.Lookup tests, were it the path relative to the root
LookupRelativePath(fs, t, name) == PathJoin(t.dir, name)

\* fullPath of directory.Lookup
LookupFullPath(fs, t, name) == PathJoin(FullPath(fs, t.dir), name)

\* directory.Lookup; lstatErr is an error os.Lstat answers for an entry that exists
DirLookup(fs, t, name, lstatErr) ==
    LET rootRelativePath == PathJoin(t.dir, name)
        fullPath == LookupFullPath(fs, t, name)
        found == {i \in 1..Len(t.entries) : t.entries[i].name = name}
        mode == KindMode(t.entries[CHOOSE i \in found : TRUE].kind)
        newNode == [rootRelativePath |-> rootRelativePath]
    IN  IF found = {} THEN [err |-> osToFuseErr("ENOENT")]
        ELSE IF lstatErr # "nil" THEN [err |-> osToFuseErr(lstatErr)]
        ELSE IF IsDir(mode) THEN [err |-> "nil", node |-> newNode @@ [variant |-> "directory"]]
        ELSE IF IsRegular(mode)
        THEN IF IsExcluded(fs, fullPath)
             THEN [err |-> "nil", node |-> newNode @@ [variant |-> "directFile"]]
             ELSE [err |-> "nil",
                   node |-> newNode @@ [variant |-> "fileAsDir", hash |-> NewFileAsDir.hash,
                                        inodeBase |-> NewFileAsDir.inodeBase]]
        ELSE IF mode \cap ModeSymlink # {}
        THEN [err |-> "nil", node |-> newNode @@ [variant |-> "symlink"]]
        ELSE [err |-> "unimplemented"]

DirectoryReadDirAll ==
    /\ tree # NoTree
    /\ listing' = [op |-> "DirReadDirAll", entries |-> DirReadDirAllEntries(splitFS, tree)]
    /\ reply' = [op |-> "DirReadDirAll", err |-> "nil"]
    /\ UNCHANGED <<splitFS, source, fileAsDir, handle, nextHandleID, openFiles,
                   tree, calls, handed>>

DirectoryLookup(name, lstatErr) ==
    LET r == DirLookup(splitFS, tree, name, lstatErr)
    IN  /\ tree # NoTree
        /\ reply' = [op |-> "DirLookup", name |-> name, err |-> r.err,
                     node |-> IF r.err = "nil" THEN r.node ELSE <<>>]
        /\ UNCHANGED <<splitFS, source, fileAsDir, listing, handle, nextHandleID, openFiles,
                       tree, calls, handed>>

NamePool == {<<"a">>, <<"b">>, <<"b", "a">>}
InoOf(name) == 100 + Len(name) + ByteOf(name[1])

\* the directories of up to MaxEntries entries, in every order the host may keep them
HostDirectories ==
    UNION {{e \in [1..n -> [name : NamePool, kind : Kinds]] :
               \A i, j \in 1..n : i # j => e[i].name # e[j].name} : n \in 0..MaxEntries}

Regexps ==
    {NoRegexp, Regexp(TRUE, <<"/", "s", "/">>, FALSE), Regexp(FALSE, <<"a">>, TRUE),
     Regexp(TRUE, <<"a">>, FALSE)}

\* splitfs started in /w on the source directory /s, or on s with the tree of s/d
InitDir ==
    /\ \E exclude \in Regexps,
          at \in {[source |-> <<"/", "s">>, dir |-> <<>>], [source |-> <<"s">>, dir |-> <<"d">>]},
          e \in HostDirectories :
          /\ splitFS = NewFSAt(<<"/", "w">>, at.source, exclude)
          /\ tree = [dir |-> at.dir,
                     entries |-> [i \in 1..Len(e) |->
                                    [name |-> e[i].name, kind |-> e[i].kind,
                                     ino |-> InoOf(e[i].name)]]]
    /\ source = SourceFile(0, FirstInstant, S_IFREG + \o644)
    /\ fileAsDir = NewFileAsDir
    /\ listing = NotListed
    /\ reply = NoReply
    /\ handle = NoHandle
    /\ nextHandleID = firstHandleID
    /\ openFiles = {}
    /\ calls = [c \in Clients |-> Idle]
    /\ handed = <<>>

NextDir ==
    \/ DirectoryReadDirAll
    \/ \E name \in NamePool, lstatErr \in {"nil", "EACCES", "EIO"} :
          DirectoryLookup(name, lstatErr)

SpecDir == InitDir /\ [][NextDir]_vars

\* the entry of the source directory with the given name
HostEntry(name) == tree.entries[CHOOSE i \in 1..Len(tree.entries) : tree.entries[i].name = name]

\* the absolute source path of the child with the given name
AbsoluteChildPath(name) ==
    splitFS.sourceDirectory \o <<"/">>
        \o (IF tree.dir = <<>> THEN <<>> ELSE tree.dir \o <<"/">>) \o name

\* the exclusion regexp is configured and matches the string
ExclusionMatches(str) ==
    /\ splitFS.excludeRegexp.set
    /\ LET lit == splitFS.excludeRegexp.lit
           at == {i \in 1..Len(str) : i + Len(lit) - 1 <= Len(str)
                                      /\ \A k \in 1..Len(lit) : str[i + k - 1] = lit[k]}
       IN  \E i \in at : /\ splitFS.excludeRegexp.start => i = 1
                         /\ splitFS.excludeRegexp.end => i + Len(lit) - 1 = Len(str)

\* the entry with the given name in the listing of the directory
ListedEntry(name) ==
    listing.entries[CHOOSE i \in 1..Len(listing.entries) : listing.entries[i].Name = name]

\* C12: a successful directory.Lookup returns the variant that goes with the
\* lstat type of the child and with the exclusion regexp matched against the
\* child's absolute source path: directory -> directory, symlink -> symlink,
\* excluded regular file -> directFile, other regular file -> fileAsDir; and the
\* entry directory.ReadDirAll lists for the child has the type of that variant
\* (file for a directFile, directory for a fileAsDir).
C12_VariantByKind ==
    (reply.op = "DirLookup" /\ reply.err = "nil")
    => LET kind == HostEntry(reply.name).kind
           path == AbsoluteChildPath(reply.name)
           variant == reply.node.variant
       IN  /\ path[1] = "/"
           /\ kind \in {"dir", "symlink", "regular"}
           /\ kind = "dir" => variant = "directory"
           /\ kind = "symlink" => variant = "symlink"
           /\ kind = "regular" =>
                 variant = (IF ExclusionMatches(path) THEN "directFile" ELSE "fileAsDir")
           /\ listing # NotListed =>
                 ListedEntry(reply.name).Type =
                    (CASE variant = "directory" -> "DT_Dir"
                       [] variant = "fileAsDir" -> "DT_Dir"
                       [] variant = "directFile" -> "DT_File"
                       [] variant = "symlink" -> "DT_Link")

\* an excluded file found through a pattern anchored at the root of the path
C12_Witness ==
    /\ reply.op = "DirLookup" /\ reply.err = "nil"
    /\ reply.node.variant = "directFile"
    /\ splitFS.excludeRegexp.start
    /\ listing # NotListed
    /\ ListedEntry(reply.name).Type = "DT_File"
    /\ \E i \in 1..Len(listing.entries) : listing.entries[i].Type = "DT_Link"

\* C13: a directory.Lookup that fails returns ENOENT, EPERM or ENOSYS, and the
\* Lookup of a socket, a device or a FIFO fails.
C13_LookupErrors ==
    reply.op = "DirLookup"
    => /\ reply.err \in {"nil", "ENOENT", "EPERM", "ENOSYS"}
       /\ (\E i \in 1..Len(tree.entries) :
              /\ tree.entries[i].name = reply.name
              /\ tree.entries[i].kind \in {"socket", "block", "char", "fifo"})
          => reply.err \in {"ENOENT", "EPERM", "ENOSYS"}

\* C14: directory.ReadDirAll lists every entry that is no regular file with the
\* type of its kind: dir, link, socket, block, char, fifo.
C14_DirentTypes ==
    listing # NotListed
    => \A i \in 1..Len(listing.entries) :
          LET kind == HostEntry(listing.entries[i].Name).kind
          IN  kind # "regular" =>
                 listing.entries[i].Type =
                    (CASE kind = "dir" -> "DT_Dir" [] kind = "symlink" -> "DT_Link"
                       [] kind = "socket" -> "DT_Socket" [] kind = "block" -> "DT_Block"
                       [] kind = "char" -> "DT_Char" [] kind = "fifo" -> "DT_FIFO")

\* C15 as stated: directory.ReadDirAll lists the names in the order in which the
\* host holds the entries of the directory.
C15_HostOrder ==
    listing # NotListed
    => /\ Len(listing.entries) = Len(tree.entries)
       /\ \A i \in 1..Len(tree.entries) : listing.entries[i].Name = tree.entries[i].name

\* C15 amended: directory.ReadDirAll lists every entry of the directory once, in
\* ascending order of the names as byte strings, whatever the order of the host.
C15_SortedByName ==
    listing # NotListed
    => /\ Len(listing.entries) = Len(tree.entries)
       /\ \A i \in 1..Len(tree.entries) :
             \E j \in 1..Len(listing.entries) : listing.entries[j].Name = tree.entries[i].name
       /\ \A i, j \in 1..Len(listing.entries) :
             i < j => NameLess(listing.entries[i].Name, listing.entries[j].Name)

\* a listing of a directory that the host holds in descending order
C15_Witness ==
    /\ listing # NotListed
    /\ Len(tree.entries) = 2
    /\ tree.entries[1].name = <<"b", "a">> /\ tree.entries[2].name = <<"b">>
    /\ listing.entries[1].Name = <<"b">>

(***************************************************************************)
(* Attributes of chunks, over chunk sizes around the 512 bytes of a block. *)
(***************************************************************************)
\* ChunkInode with the 0-based number of the chunk
ChunkInodeZeroBased(inode, chunk) == inode + chunk

\* attr.Inode += uint64(f.chunk + 1)
ChunkInode(inode, chunk) == inode + (chunk + 1)

\* fileChunk.Attr
FileChunkAttr(node, stat) ==
    LET n == NodeAttr(stat)
    IN  IF n.err # "nil" THEN n
        ELSE [err |-> "nil",
              attr |-> [n.attr EXCEPT !.Inode = ChunkInode(@, node.chunk),
                                      !.Size = node.size,
                                      !.Blocks = ceilAndRemainder(node.size, attrBlockSize)[1]]]

\* Attr on the chunk node the last Lookup returned
FileChunkGetAttr ==
    LET r == FileChunkAttr(reply.node, StatSource(source))
    IN  /\ reply.op = "Lookup" /\ reply.err = "nil"
        /\ reply' = [op |-> "FileChunkAttr", name |-> reply.name, node |-> reply.node,
                     err |-> r.err, attr |-> IF r.err = "nil" THEN r.attr ELSE <<>>]
        /\ UNCHANGED <<splitFS, source, fileAsDir, listing, handle, nextHandleID, openFiles,
                       tree, calls, handed>>

AttrChunkSizes == {512, 513}
AttrFileSizes == {0, 1, 512, 513, 1025, 1026, 1027}

InitChunkAttr ==
    /\ \E c \in AttrChunkSizes : splitFS = NewFS(c, TRUE, FALSE).fs
    /\ \E size \in AttrFileSizes : source = SourceFile(size, FirstInstant, S_IFREG + \o644)
    /\ fileAsDir = NewFileAsDir
    /\ listing = NotListed
    /\ reply = NoReply
    /\ handle = NoHandle
    /\ nextHandleID = firstHandleID
    /\ openFiles = {}
    /\ tree = NoTree
    /\ calls = [c \in Clients |-> Idle]
    /\ handed = <<>>

NextChunkAttr ==
    \/ FileAsDirReadDirAll
    \/ \E name \in (IF listing = NotListed THEN {}
                    ELSE IndexNames(splitFS, fileAsDir, listing)) : FileAsDirLookup(name)
    \/ FileChunkGetAttr
    \/ \E n \in AttrFileSizes : SourceResize(n)

SpecChunkAttr == InitChunkAttr /\ [][NextChunkAttr]_vars

\* C16: fileChunk.Attr reports the inode that fileAsDir.Attr reports for the
\* parent, which is the inode of the source file, plus the 1-based index of the
\* chunk; the size is the size of the chunk and the block count is
\* ceil(size of the chunk / 512); the other attributes are those of lstat.
C16_ChunkAttr ==
    (reply.op = "FileChunkAttr" /\ reply.err = "nil")
    => LET parent == FileAsDirAttr(StatSource(source)).attr
           index == reply.node.chunk + 1
           blocks == reply.attr.Blocks
       IN  /\ parent.Inode = source.ino
           /\ reply.attr.Inode = parent.Inode + index
           /\ reply.attr.Size = reply.node.size
           /\ blocks >= 0
           /\ 512 * blocks >= reply.node.size
           /\ 512 * (blocks - 1) < reply.node.size
           /\ reply.attr.Nlink = source.nlink
           /\ reply.attr.Uid = source.uid
           /\ reply.attr.Mtime = source.mtime

\* the second chunk of a file, of 513 bytes and so of two blocks
C16_Witness ==
    /\ reply.op = "FileChunkAttr" /\ reply.err = "nil"
    /\ reply.node.chunk = 1
    /\ reply.node.size = 513
    /\ reply.attr.Blocks = 2
    /\ reply.attr.Inode = source.ino + 2

\* C20: the inode of the entry fileAsDir.ReadDirAll lists for a chunk equals the
\* inode fileChunk.Attr reports for the node that the Lookup of the entry's
\* name returns.
C20_ListingInodeIsAttrInode ==
    (reply.op = "FileChunkAttr" /\ reply.err = "nil" /\ ListingFresh)
    => \A i \in 1..Len(listing.entries) :
          listing.entries[i].Name = reply.name
             => listing.entries[i].Inode = reply.attr.Inode

(***************************************************************************)
(* main: the flag chunk_size is parsed by parseChunkSize and the result is *)
(* given to NewFS.  An int64 that is a multiple of 2^shift is held as      *)
(* [mant, shift], the value mant * 2^shift, with mant in the signed range  *)
(* of 64 - shift bits, so that the products keep their 64-bit width.       *)
(***************************************************************************)
\* the amounts 0 - 1 .. MaxAmount are tried with every unit
MaxAmount == 3

\* the units of parseChunkSize in the order it tries them, with log2 of the multiplier
unitsOrder ==
    <<[unit |-> <<"T", "i", "B">>, shift |-> 40], [unit |-> <<"G", "i", "B">>, shift |-> 30],
      [unit |-> <<"M", "i", "B">>, shift |-> 20], [unit |-> <<"K", "i", "B">>, shift |-> 10],
      [unit |-> <<"B">>, shift |-> 0]>>

\* int64(amount) * 2^shift in 64 bits, for the amounts of the model, which are
\* below 2^31 in size: the bits from 64 - shift up are lost, bit 63 is the sign
MulInt64(amount, shift) ==
    IF 64 - shift > 31 THEN [mant |-> amount, shift |-> shift]
    ELSE LET m == amount % Pow2(64 - shift)
         IN  [mant |-> IF m >= Pow2(63 - shift) THEN m - Pow2(64 - shift) ELSE m,
              shift |-> shift]

\* parseChunkSize
RECURSIVE parseChunkSizeFrom(_, _)
parseChunkSizeFrom(chunkSize, k) ==
    IF k > Len(unitsOrder) THEN [err |-> "no unit specified"]
    ELSE IF ~HasSuffix(chunkSize, unitsOrder[k].unit) THEN parseChunkSizeFrom(chunkSize, k + 1)
    ELSE LET amount == ParseInt(TrimSuffix(chunkSize, unitsOrder[k].unit))
         IN  IF ~amount.ok THEN [err |-> "is not an integer"]
             ELSE [err |-> "nil", value |-> MulInt64(amount.value, unitsOrder[k].shift)]

parseChunkSize(chunkSize) == parseChunkSizeFrom(chunkSize, 1)

\* NewFS on an int64 chunk size: its test chunkSize <= 0 is the test of the sign of mant
NewFSInt64(chunkSize) ==
    LET r == NewFS(chunkSize.mant, TRUE, FALSE)
    IN  IF r.err # "nil" THEN r
        ELSE [err |-> "nil", fs |-> [r.fs EXCEPT !.chunkSize = chunkSize]]

NotConstructed == [err |-> "none"]

Amounts ==
    ((0 - 1)..MaxAmount) \cup {32, 8388607, 8388608, 16777215, 16777216, 16777217, 2147483647}

\* the values of the flag: every amount with every unit, and strings of other forms
ChunkSizeFlags ==
    {FormatInt(n) \o unitsOrder[k].unit : n \in Amounts, k \in 1..Len(unitsOrder)}
    \cup {<<>>, <<"3", "2">>, <<"M", "i", "B">>, <<"1", ".", "5", "M", "i", "B">>,
          <<"3", "2", "m", "i", "b">>, <<"+", "2", "K", "i", "B">>}

\* main parses the flag; on an error it ends with log.Fatalf
MainParseChunkSize(flag) ==
    LET r == parseChunkSize(flag)
    IN  /\ reply = NoReply
        /\ reply' = [op |-> "parseChunkSize", flag |-> flag, err |-> r.err,
                     value |-> IF r.err = "nil" THEN r.value ELSE <<>>]
        /\ UNCHANGED <<splitFS, source, fileAsDir, listing, handle, nextHandleID, openFiles,
                       tree, calls, handed>>

\* main calls split.NewFS with the parsed chunk size
MainNewFS ==
    LET r == NewFSInt64(reply.value)
    IN  /\ reply.op = "parseChunkSize" /\ reply.err = "nil"
        /\ reply' = [op |-> "NewFS", flag |-> reply.flag, err |-> r.err]
        /\ splitFS' = IF r.err = "nil" THEN r.fs ELSE splitFS
        /\ UNCHANGED <<source, fileAsDir, listing, handle, nextHandleID, openFiles,
                       tree, calls, handed>>

InitMain ==
    /\ splitFS = NotConstructed
    /\ source = SourceFile(0, FirstInstant, S_IFREG + \o644)
    /\ fileAsDir = NewFileAsDir
    /\ listing = NotListed
    /\ reply = NoReply
    /\ handle = NoHandle
    /\ nextHandleID = firstHandleID
    /\ openFiles = {}
    /\ tree = NoTree
    /\ calls = [c \in Clients |-> Idle]
    /\ handed = <<>>

NextMain ==
    \/ \E flag \in ChunkSizeFlags : MainParseChunkSize(flag)
    \/ MainNewFS

SpecMain == InitMain /\ [][NextMain]_vars

\* C21: parseChunkSize maps every string <N><UNIT> with an integer N and a unit
\* of B, KiB, MiB, GiB, TiB to N times the multiplier of the unit as an int64
\* that did not wrap around, and a filesystem that NewFS constructs from it has
\* a strictly positive chunk size equal to the N times the multiplier asked for.
C21_ChunkSizeExact ==
    \A n \in Amounts, k \in 1..5 :
        LET unit == <<<<"T", "i", "B">>, <<"G", "i", "B">>, <<"M", "i", "B">>,
                      <<"K", "i", "B">>, <<"B">>>>[k]
            asked == [mant |-> n, shift |-> 10 * (5 - k)]
        IN  /\ (reply.op = "parseChunkSize" /\ reply.flag = FormatInt(n) \o unit)
                 => (reply.err = "nil" /\ reply.value = asked)
            /\ (reply.op = "NewFS" /\ reply.err = "nil" /\ reply.flag = FormatInt(n) \o unit)
                 => (splitFS.chunkSize = asked /\ n > 0)

====
